---- MODULE Spec2Model ----
(***************************************************************************)
(* Model of src/src/components/provider.tsx (react-intl IntlProvider):     *)
(* processIntlConfig, setTimeZoneInOptions, createIntl and the provider's  *)
(* state initialiser, getDerivedStateFromProps and render.                 *)
(*                                                                         *)
(* JavaScript values are strings: "undefined", "null", locale and time     *)
(* zone names, function values ("fn:...") and object references ("fmt:A",  *)
(* "new:1", "ctx:1", ...).  Comparing two such strings is the === of the   *)
(* program: equal primitives, or the same object.  An object's contents    *)
(* live in a heap (objs, ctxs, caches) under its reference.  A plain       *)
(* object is a function from its own property names to values, so that     *)
(* {...a, ...b} is Merge(a, b).                                            *)
(***************************************************************************)
EXTENDS Integers, Sequences, FiniteSets, TLC

VARIABLES
  props,     \* this.props of the mounted provider (the raw configuration)
  state,     \* this.state: cache, intl, prevConfig
  objs,      \* heap of formats / messages objects: reference -> contents
  ctxs,      \* heap of IntlShape objects: reference -> contents
  caches,    \* heap of IntlCache objects: reference -> set of entries
  natives,   \* every native formatter instance constructed so far
  errors,    \* onError invocations made while props held its current value
  last,      \* the last operation and its outcome
  fnPc,      \* direct calls: position
  fnIn,      \* direct calls: the configuration object given, as it is now
  fnOut      \* direct calls: results obtained so far

vars == <<props, state, objs, ctxs, caches, natives, errors, last,
          fnPc, fnIn, fnOut>>

providerVars == <<props, state, ctxs, caches, natives, errors, last>>
fnVars == <<fnPc, fnIn, fnOut>>

(***************************************************************************)
(* Bounds                                                                  *)
(***************************************************************************)
MaxErrCalls == 2    \* onError invocations recorded for one configuration
MaxNatives == 2     \* native formatter instances constructed in a session
MaxHeld == 2        \* earlier contexts that consumers still hold

(***************************************************************************)
(* JavaScript values                                                       *)
(***************************************************************************)
Undef == "undefined"
Null == "null"
Absent == "absent"       \* marks a key an object literal does not have

Falsy(v) == v \in {Undef, Null, ""}

Functions == {"fn:defaultErrorHandler", "fn:onError"}
IsFunction(v) == v \in Functions

EmptyObj == [k \in {} |-> Undef]

Get(o, k) == IF k \in DOMAIN o THEN o[k] ELSE Undef

\* {...a, ...b}
Merge(a, b) ==
  [k \in (DOMAIN a) \cup (DOMAIN b) |-> IF k \in DOMAIN b THEN b[k] ELSE a[k]]

Restrict(f, S) == [k \in (DOMAIN f) \cap S |-> f[k]]

ConfigKeys == {"locale", "timeZone", "formats", "textComponent", "messages",
               "defaultLocale", "defaultFormats", "onError"}

(***************************************************************************)
(* Objects the host application owns: format preset tables and message     *)
(* catalogs.  "fmt:A" and "fmt:A2" are two objects with the same contents, *)
(* and so are "msg:A" and "msg:A2", and "fmt:default" and "dfmt:default".  *)
(***************************************************************************)
PlainShort == [month |-> "short"]
OwnZone == [timeZone |-> "America/New_York", month |-> "short"]
UndefZone == [timeZone |-> Undef, hour |-> "numeric"]
PlainTime == [hour |-> "numeric"]

UserObjs ==
  ("fmt:default" :> EmptyObj) @@
  ("dfmt:default" :> EmptyObj) @@
  ("msg:default" :> EmptyObj) @@
  ("msg:A" :> [greeting |-> "Hello"]) @@
  ("msg:A2" :> [greeting |-> "Hello"]) @@
  ("fmt:A" :> [date |-> [short |-> PlainShort]]) @@
  ("fmt:A2" :> [date |-> [short |-> PlainShort]]) @@
  ("fmt:B" :> [date |-> [short |-> OwnZone, long |-> PlainShort],
               time |-> [short |-> PlainTime],
               number |-> [usd |-> [style |-> "currency"]]]) @@
  ("fmt:C" :> [date |-> EmptyObj,
               time |-> [short |-> UndefZone, long |-> PlainTime]])

NewRefs == {"new:1", "new:2", "new:3", "new:4", "new:5", "new:6", "new:7",
            "new:8"}
CtxRefs == {"ctx:1", "ctx:2", "ctx:3", "ctx:4", "ctx:5"}
CacheRefs == {"cache:1", "cache:2", "cache:3"}

FreshObj(heap) == CHOOSE r \in NewRefs : r \notin DOMAIN heap
\* variant: the one context object is written again by every build
FreshCtx_Reused(heap) == CHOOSE r \in CtxRefs : r = "ctx:1"
FreshCtx(heap) == CHOOSE r \in CtxRefs : r \notin DOMAIN heap
FreshCache(heap) == CHOOSE r \in CacheRefs : r \notin DOMAIN heap

(***************************************************************************)
(* Collaborators outside provider.tsx                                      *)
(***************************************************************************)
SupportedLocales == {"en", "fr", "de"}
areIntlLocalesSupported(locale) == locale \in SupportedLocales

DEFAULT_INTL_CONFIG ==
  [formats |-> "fmt:default",
   messages |-> "msg:default",
   timeZone |-> Undef,
   textComponent |-> "Fragment",
   defaultLocale |-> "en",
   defaultFormats |-> "dfmt:default",
   onError |-> "fn:defaultErrorHandler"]

createError(locale, defaultLocale) ==
  [kind |-> "MissingLocaleData", locale |-> locale,
   defaultLocale |-> defaultLocale]

\* createIntlCache(): a new, empty cache object
createIntlCache(cacheHeap) ==
  [ref |-> FreshCache(cacheHeap),
   caches |-> (FreshCache(cacheHeap) :> {}) @@ cacheHeap]

\* variant: creating the accessors constructs a number formatter and
\* stores it in the cache
createFormatters_Eager(cache, cacheHeap) ==
  LET made == [kind |-> "number", locale |-> "en", args |-> <<>>,
               serial |-> 1]
      entry == [key |-> [kind |-> "number", locale |-> "en",
                         options |-> <<>>],
                instance |-> made]
  IN IF cache = Undef
     THEN [ref |-> FreshCache(cacheHeap),
           caches |-> (FreshCache(cacheHeap) :> {entry}) @@ cacheHeap]
     ELSE [ref |-> cache,
           caches |-> [cacheHeap EXCEPT ![cache] = @ \cup {entry}]]

\* createFormatters(cache = createIntlCache()): the accessors are bound to
\* the cache given, or to a new one when none is given
createFormatters(cache, cacheHeap) ==
  IF cache = Undef THEN createIntlCache(cacheHeap)
  ELSE [ref |-> cache, caches |-> cacheHeap]

(***************************************************************************)
(* setTimeZoneInOptions, provider.tsx:55-69                                *)
(***************************************************************************)
\* variant: the spread comes first, so the top-level time zone wins
setTimeZoneInOptions_TopLevelWins(opts, timeZone) ==
  [k \in DOMAIN opts |-> Merge(opts[k], [timeZone |-> timeZone])]

setTimeZoneInOptions(opts, timeZone) ==
  [k \in DOMAIN opts |-> Merge([timeZone |-> timeZone], opts[k])]

(***************************************************************************)
(* processIntlConfig, provider.tsx:71-117                                  *)
(* InjectTimeZone is the block run for formats (76-90) and again for       *)
(* defaultFormats (91-105): both tests read the date and time tables       *)
(* destructured from the object given, and each hit makes a new object by  *)
(* spreading the current one.  Only the last object made is kept; the      *)
(* intermediate one is unreachable when the function returns and is not    *)
(* put in the heap.                                                        *)
(***************************************************************************)
\* variant: the time tables are left as given
InjectTimeZone_DateOnly(ref, timeZone, heap) ==
  IF Falsy(ref) THEN [ref |-> ref, objs |-> heap]
  ELSE IF "date" \in DOMAIN heap[ref]
  THEN [ref |-> FreshObj(heap),
        objs |-> (FreshObj(heap) :>
                    Merge(heap[ref],
                          [date |-> setTimeZoneInOptions(heap[ref].date,
                                                         timeZone)])) @@ heap]
  ELSE [ref |-> ref, objs |-> heap]

InjectTimeZone(ref, timeZone, heap) ==
  IF Falsy(ref) THEN [ref |-> ref, objs |-> heap]
  ELSE
    LET given == heap[ref]
        hasDate == "date" \in DOMAIN given
        hasTime == "time" \in DOMAIN given
        afterDate ==
          IF hasDate
          THEN Merge(given, [date |-> setTimeZoneInOptions(given.date, timeZone)])
          ELSE given
        afterTime ==
          IF hasTime
          THEN Merge(afterDate,
                     [time |-> setTimeZoneInOptions(given.time, timeZone)])
          ELSE afterDate
    IN IF hasDate \/ hasTime
       THEN [ref |-> FreshObj(heap),
             objs |-> (FreshObj(heap) :> afterTime) @@ heap]
       ELSE [ref |-> ref, objs |-> heap]

\* the object literal returned, provider.tsx:107-116
CanonicalFields(config, timeZone, formats, defaultFormats) ==
  [locale |-> Get(config, "locale"),
   timeZone |-> timeZone,
   formats |-> formats,
   textComponent |-> Get(config, "textComponent"),
   messages |-> Get(config, "messages"),
   defaultLocale |-> Get(config, "defaultLocale"),
   defaultFormats |-> defaultFormats,
   onError |-> Get(config, "onError")]

\* variant: locale and defaultLocale are stored under each other's key
processIntlConfig_Swapped(config, heap) ==
  LET timeZone == Get(config, "timeZone")
      f == IF ~Falsy(timeZone)
           THEN InjectTimeZone(Get(config, "formats"), timeZone, heap)
           ELSE [ref |-> Get(config, "formats"), objs |-> heap]
      d == IF ~Falsy(timeZone)
           THEN InjectTimeZone(Get(config, "defaultFormats"), timeZone, f.objs)
           ELSE [ref |-> Get(config, "defaultFormats"), objs |-> f.objs]
      fields == CanonicalFields(config, timeZone, f.ref, d.ref)
  IN [config |-> [fields EXCEPT !.locale = fields.defaultLocale,
                                !.defaultLocale = fields.locale],
      objs |-> d.objs]

\* variant: the presets are rewritten whether or not a time zone is given
processIntlConfig_AlwaysInject(config, heap) ==
  LET timeZone == Get(config, "timeZone")
      f == InjectTimeZone(Get(config, "formats"), timeZone, heap)
      d == InjectTimeZone(Get(config, "defaultFormats"), timeZone, f.objs)
  IN [config |-> CanonicalFields(config, timeZone, f.ref, d.ref),
      objs |-> d.objs]

processIntlConfig(config, heap) ==
  LET timeZone == Get(config, "timeZone")
      f == IF ~Falsy(timeZone)
           THEN InjectTimeZone(Get(config, "formats"), timeZone, heap)
           ELSE [ref |-> Get(config, "formats"), objs |-> heap]
      d == IF ~Falsy(timeZone)
           THEN InjectTimeZone(Get(config, "defaultFormats"), timeZone, f.objs)
           ELSE [ref |-> Get(config, "defaultFormats"), objs |-> f.objs]
  IN [config |-> CanonicalFields(config, timeZone, f.ref, d.ref),
      objs |-> d.objs]

(***************************************************************************)
(* shallowEquals (shallow-equal/objects), provider.tsx:28-30: same keys,   *)
(* and === on every value                                                  *)
(***************************************************************************)
\* variant: objects are compared by their contents
shallowEquals_ByContents(a, b) ==
  /\ DOMAIN a = DOMAIN b
  /\ \A k \in DOMAIN a :
       \/ a[k] = b[k]
       \/ /\ a[k] \in DOMAIN UserObjs
          /\ b[k] \in DOMAIN UserObjs
          /\ UserObjs[a[k]] = UserObjs[b[k]]

shallowEquals(a, b) ==
  /\ DOMAIN a = DOMAIN b
  /\ \A k \in DOMAIN a : a[k] = b[k]

(***************************************************************************)
(* createIntl, provider.tsx:157-230.  The result names the new IntlShape   *)
(* object (ref, intl), the onError invocations made (errors), whether the  *)
(* call threw, the configuration object given as it is after the call     *)
(* (config: resolvedConfig is a copy, so the assignment of line 182 does   *)
(* not reach it), and the context and cache heaps after the call.  The     *)
(* bound format functions close over resolvedConfig and formatters, which  *)
(* are the fields of the object returned.                                  *)
(***************************************************************************)
\* provider.tsx:163-166
NeedsFallback(resolvedConfig) ==
  \/ Falsy(Get(resolvedConfig, "locale"))
  \/ ~areIntlLocalesSupported(Get(resolvedConfig, "locale"))

\* provider.tsx:167-175: the onError invocations of one call, and whether
\* the call threw.  onError is called only if it is a function, so nothing
\* that is not callable is called; a callback is taken to return.
ReportMissingLocale(resolvedConfig) ==
  IF IsFunction(Get(resolvedConfig, "onError"))
  THEN [errors |-> <<createError(Get(resolvedConfig, "locale"),
                                 Get(resolvedConfig, "defaultLocale"))>>,
        threw |-> FALSE]
  ELSE [errors |-> <<>>, threw |-> FALSE]

NothingReported == [errors |-> <<>>, threw |-> FALSE]

\* variant: the defaultLocale is taken as it is
FallbackLocale_NoEn(resolvedConfig) ==
  Get(resolvedConfig, "defaultLocale")

\* provider.tsx:182
FallbackLocale(resolvedConfig) ==
  IF Falsy(Get(resolvedConfig, "defaultLocale")) THEN "en"
  ELSE Get(resolvedConfig, "defaultLocale")

\* variant: createFormatters() is called without the cache
createIntl_OwnCache(config, cache, ctxHeap, cacheHeap) ==
  LET formatters == createFormatters(Undef, cacheHeap)
      resolvedConfig == Merge(DEFAULT_INTL_CONFIG, config)
      final ==
        IF NeedsFallback(resolvedConfig)
        THEN Merge(resolvedConfig, [locale |-> FallbackLocale(resolvedConfig)])
        ELSE resolvedConfig
      intl == Merge(final, [formatters |-> formatters.ref])
      report == IF NeedsFallback(resolvedConfig)
                THEN ReportMissingLocale(resolvedConfig) ELSE NothingReported
  IN [ref |-> FreshCtx(ctxHeap),
      intl |-> intl,
      errors |-> report.errors,
      threw |-> report.threw,
      config |-> config,
      ctxs |-> (FreshCtx(ctxHeap) :> intl) @@ ctxHeap,
      caches |-> formatters.caches]

\* variant: resolvedConfig is the object given, filled with the defaults
\* (Object.assign(config, ...)) instead of a copy
createIntl_Aliased(config, cache, ctxHeap, cacheHeap) ==
  LET formatters == createFormatters(cache, cacheHeap)
      resolvedConfig == Merge(DEFAULT_INTL_CONFIG, config)
      final ==
        IF NeedsFallback(resolvedConfig)
        THEN Merge(resolvedConfig, [locale |-> FallbackLocale(resolvedConfig)])
        ELSE resolvedConfig
      intl == Merge(final, [formatters |-> formatters.ref])
      report == IF NeedsFallback(resolvedConfig)
                THEN ReportMissingLocale(resolvedConfig) ELSE NothingReported
  IN [ref |-> FreshCtx(ctxHeap),
      intl |-> intl,
      errors |-> report.errors,
      threw |-> report.threw,
      config |-> final,
      ctxs |-> (FreshCtx(ctxHeap) :> intl) @@ ctxHeap,
      caches |-> formatters.caches]

\* variant: the fallback resets messages to the default catalog, as the
\* comment of provider.tsx:179-181 describes
createIntl_ClearsMessages(config, cache, ctxHeap, cacheHeap) ==
  LET formatters == createFormatters(cache, cacheHeap)
      resolvedConfig == Merge(DEFAULT_INTL_CONFIG, config)
      final ==
        IF NeedsFallback(resolvedConfig)
        THEN Merge(resolvedConfig,
                   [locale |-> FallbackLocale(resolvedConfig),
                    messages |-> DEFAULT_INTL_CONFIG.messages])
        ELSE resolvedConfig
      intl == Merge(final, [formatters |-> formatters.ref])
      report == IF NeedsFallback(resolvedConfig)
                THEN ReportMissingLocale(resolvedConfig) ELSE NothingReported
  IN [ref |-> FreshCtx(ctxHeap),
      intl |-> intl,
      errors |-> report.errors,
      threw |-> report.threw,
      config |-> config,
      ctxs |-> (FreshCtx(ctxHeap) :> intl) @@ ctxHeap,
      caches |-> formatters.caches]

createIntl(config, cache, ctxHeap, cacheHeap) ==
  LET formatters == createFormatters(cache, cacheHeap)
      resolvedConfig == Merge(DEFAULT_INTL_CONFIG, config)
      final ==
        IF NeedsFallback(resolvedConfig)
        THEN Merge(resolvedConfig, [locale |-> FallbackLocale(resolvedConfig)])
        ELSE resolvedConfig
      intl == Merge(final, [formatters |-> formatters.ref])
      report == IF NeedsFallback(resolvedConfig)
                THEN ReportMissingLocale(resolvedConfig) ELSE NothingReported
  IN [ref |-> FreshCtx(ctxHeap),
      intl |-> intl,
      errors |-> report.errors,
      threw |-> report.threw,
      config |-> config,
      ctxs |-> (FreshCtx(ctxHeap) :> intl) @@ ctxHeap,
      caches |-> formatters.caches]

(***************************************************************************)
(* IntlProvider.getDerivedStateFromProps, provider.tsx:132-144.            *)
(* null is TRUE when the function returns null; otherwise partial is the   *)
(* state update returned.                                                  *)
(***************************************************************************)
\* the update of lines 138-141, with the heaps after the two calls
StateUpdate(partial, n, c) ==
  [null |-> FALSE, partial |-> partial,
   objs |-> n.objs, ctxs |-> c.ctxs, caches |-> c.caches,
   errors |-> c.errors, threw |-> c.threw]

\* return null, line 143
NoUpdate(heap, ctxHeap, cacheHeap) ==
  [null |-> TRUE, partial |-> EmptyObj,
   objs |-> heap, ctxs |-> ctxHeap, caches |-> cacheHeap,
   errors |-> <<>>, threw |-> FALSE]

\* variant: the update does not store the configuration compared
getDerivedStateFromProps_KeepsPrevConfig(p, st, heap, ctxHeap, cacheHeap) ==
  LET n == processIntlConfig(p, heap)
      c == createIntl(n.config, st.cache, ctxHeap, cacheHeap)
  IN IF ~shallowEquals(st.prevConfig, n.config)
     THEN StateUpdate([intl |-> c.ref], n, c)
     ELSE NoUpdate(heap, ctxHeap, cacheHeap)

\* variant: createIntl(config) is called without the cache of the state
getDerivedStateFromProps_NoCache(p, st, heap, ctxHeap, cacheHeap) ==
  LET n == processIntlConfig(p, heap)
      c == createIntl(n.config, Undef, ctxHeap, cacheHeap)
  IN IF ~shallowEquals(st.prevConfig, n.config)
     THEN StateUpdate([intl |-> c.ref, prevConfig |-> c.config], n, c)
     ELSE NoUpdate(heap, ctxHeap, cacheHeap)

\* variant: the update stores the new configuration and keeps the context
getDerivedStateFromProps_StaleIntl(p, st, heap, ctxHeap, cacheHeap) ==
  LET n == processIntlConfig(p, heap)
      c == createIntl(n.config, st.cache, ctxHeap, cacheHeap)
  IN IF ~shallowEquals(st.prevConfig, n.config)
     THEN StateUpdate([prevConfig |-> c.config], n, c)
     ELSE NoUpdate(heap, ctxHeap, cacheHeap)

\* variant: the update stores the configuration without a context
getDerivedStateFromProps_DropsIntl(p, st, heap, ctxHeap, cacheHeap) ==
  LET n == processIntlConfig(p, heap)
      c == createIntl(n.config, st.cache, ctxHeap, cacheHeap)
  IN IF ~shallowEquals(st.prevConfig, n.config)
     THEN StateUpdate([intl |-> Undef, prevConfig |-> c.config], n, c)
     ELSE NoUpdate(heap, ctxHeap, cacheHeap)

getDerivedStateFromProps(p, st, heap, ctxHeap, cacheHeap) ==
  LET n == processIntlConfig(p, heap)
      c == createIntl(n.config, st.cache, ctxHeap, cacheHeap)
  IN IF ~shallowEquals(st.prevConfig, n.config)
     THEN StateUpdate([intl |-> c.ref, prevConfig |-> c.config], n, c)
     ELSE NoUpdate(heap, ctxHeap, cacheHeap)

(***************************************************************************)
(* The objects a provider state can still reach.  An object that nothing   *)
(* reaches is dropped from its heap and its reference may name a later     *)
(* object: the program can only compare references it still holds.         *)
(***************************************************************************)
ReachableObjs(st, ctxHeap) ==
  (DOMAIN UserObjs)
    \cup {st.prevConfig.formats, st.prevConfig.defaultFormats}
    \cup {ctxHeap[c].formats : c \in DOMAIN ctxHeap}
    \cup {ctxHeap[c].defaultFormats : c \in DOMAIN ctxHeap}

(***************************************************************************)
(* The provider.  Its props are the raw configuration after React has      *)
(* applied defaultProps (provider.tsx:124), so the keys of                 *)
(* DEFAULT_INTL_CONFIG other than timeZone are never undefined.            *)
(***************************************************************************)
PropValues ==
  [locale |-> {Undef, "en", "fr", "xx"},
   timeZone |-> {Undef, "UTC"},
   formats |-> {"fmt:default", "fmt:A", "fmt:B"},
   textComponent |-> {"Fragment", "span"},
   messages |-> {"msg:default", "msg:A"},
   defaultLocale |-> {"en", "zz"},
   defaultFormats |-> {"dfmt:default", "fmt:C"},
   onError |-> {"fn:onError", Null}]

ProviderProps ==
  [locale : PropValues.locale,
   timeZone : PropValues.timeZone,
   formats : PropValues.formats,
   textComponent : PropValues.textComponent,
   messages : PropValues.messages,
   defaultLocale : PropValues.defaultLocale,
   defaultFormats : PropValues.defaultFormats,
   onError : PropValues.onError]

FnOff == /\ fnPc = "off"
         /\ fnIn = EmptyObj
         /\ fnOut = EmptyObj

\* provider.tsx:125-130: the cache, then the state initialiser, which
\* normalises this.props twice
Init ==
  /\ props \in ProviderProps
  /\ LET k == createIntlCache(EmptyObj)
         n1 == processIntlConfig(props, UserObjs)
         c == createIntl(n1.config, k.ref, EmptyObj, k.caches)
         n2 == processIntlConfig(props, n1.objs)
         st == [cache |-> k.ref, intl |-> c.ref, prevConfig |-> n2.config]
     IN /\ state = st
        /\ ctxs = c.ctxs
        /\ caches = c.caches
        /\ errors = c.errors
        /\ objs = Restrict(n2.objs, ReachableObjs(st, c.ctxs))
  /\ natives = {}
  /\ last = [op |-> "constructor", changed |-> TRUE, rebuilt |-> TRUE,
             threw |-> FALSE]
  /\ FnOff

\* React calls getDerivedStateFromProps with the next props, which differ
\* from this.props in at most the field k, and merges the update returned
\* into this.state.  consumers are the earlier contexts that consumers of
\* the provider still hold after the call.
GuardCall(k, v, consumers) ==
  /\ fnPc = "off"
  /\ \E p \in {[props EXCEPT ![k] = v]} :
     \E r \in {getDerivedStateFromProps(p, state, objs, ctxs, caches)} :
     \E st \in {Merge(state, r.partial)} :
     \E held \in {Restrict(r.ctxs, {st.intl} \cup consumers)} :
     \E errs \in {IF p = props THEN errors \o r.errors ELSE r.errors} :
        /\ Len(errs) <= MaxErrCalls
        /\ props' = p
        /\ state' = st
        /\ ctxs' = held
        /\ caches' = Restrict(r.caches,
                              {st.cache} \cup
                                {held[c].formatters : c \in DOMAIN held})
        /\ objs' = Restrict(r.objs, ReachableObjs(st, held))
        /\ errors' = errs
        /\ last' = [op |-> "getDerivedStateFromProps",
                     changed |-> p # props, rebuilt |-> ~r.null,
                     threw |-> r.threw]
        /\ UNCHANGED <<natives, fnVars>>

\* A configuration event; every consumer re-renders with the context the
\* provider supplies from now on.
ConfigurationEvent(k, v) == GuardCall(k, v, {})

\* invariantIntlContext(intl) of utils: fails when no context is provided
invariantIntlContext(intl) == [threw |-> Falsy(intl)]

\* IntlProvider.render, provider.tsx:146-149
Render ==
  /\ fnPc = "off"
  /\ last' = [op |-> "render",
              threw |-> invariantIntlContext(Get(state, "intl")).threw,
              value |-> Get(state, "intl")]
  /\ UNCHANGED <<props, state, objs, ctxs, caches, natives, errors, fnVars>>

Next ==
  \/ \E k \in ConfigKeys : \E v \in PropValues[k] : ConfigurationEvent(k, v)
  \/ Render

Spec == Init /\ [][Next]_vars

(***************************************************************************)
(* Formatter cache and bound format functions (utils.createFormatters,     *)
(* formatters/number, formatters/plural): a bound function takes the       *)
(* locale of its context and the options given and asks the cache of its   *)
(* context for the native formatter.  An options object is the sequence    *)
(* of its <<name, value>> properties in insertion order.                   *)
(***************************************************************************)
Kinds == {"number", "pluralRules"}

OptionRank == [currency |-> 1, style |-> 2, type |-> 3]

OptionObjects ==
  { << <<"style", "currency">>, <<"currency", "USD">> >>,
    << <<"currency", "USD">>, <<"style", "currency">> >> }

Range(q) == {q[i] : i \in DOMAIN q}

\* the properties ordered by name: the serialisation the key is made of
CanonicalOptions(o) ==
  [i \in 1..Len(o) |->
     CHOOSE pr \in Range(o) :
       Cardinality({q \in Range(o) : OptionRank[q[1]] < OptionRank[pr[1]]})
         = i - 1]

\* variant: the key leaves the locale out
CacheKey_NoLocale(kind, locale, o) ==
  [kind |-> kind, locale |-> "any", options |-> CanonicalOptions(o)]

CacheKey(kind, locale, o) ==
  [kind |-> kind, locale |-> locale, options |-> CanonicalOptions(o)]

\* new Intl.NumberFormat(locale, o), new Intl.PluralRules(locale, o): an
\* instance differs from every instance constructed before it
Construct(kind, locale, o, built) ==
  [kind |-> kind, locale |-> locale, args |-> o,
   serial |-> 1 + Cardinality({i \in built : /\ i.kind = kind
                                             /\ i.locale = locale
                                             /\ i.args = o})]

getOrCreate(entries, kind, locale, o, built) ==
  LET key == CacheKey(kind, locale, o)
      found == {e \in entries : e.key = key}
      made == Construct(kind, locale, o, built)
  IN IF found # {}
     THEN [hit |-> TRUE, instance |-> (CHOOSE e \in found : TRUE).instance,
           entries |-> entries, natives |-> built]
     ELSE [hit |-> FALSE, instance |-> made,
           entries |-> entries \cup {[key |-> key, instance |-> made]},
           natives |-> built \cup {made}]

\* A consumer calls intl.formatNumber / intl.formatPlural of the context
\* the provider currently supplies, with the options object o.
FormatCall(kind, o) ==
  /\ fnPc = "off"
  /\ \E r \in {getOrCreate(caches[ctxs[state.intl].formatters], kind,
                           ctxs[state.intl].locale, o, natives)} :
     /\ Cardinality(r.natives) <= MaxNatives
     /\ caches' = [caches EXCEPT ![ctxs[state.intl].formatters] = r.entries]
     /\ natives' = r.natives
     /\ last' = [op |-> "format", hit |-> r.hit, options |-> o,
                 instance |-> r.instance, threw |-> FALSE]
     /\ UNCHANGED <<props, state, objs, ctxs, errors, fnVars>>

(***************************************************************************)
(* A session: a provider whose consumers format values while its locale,   *)
(* defaultLocale, timeZone and formats change.                             *)
(***************************************************************************)
SessionKeys == {"locale", "defaultLocale", "timeZone", "formats"}

SessionFixed ==
  [textComponent |-> "Fragment", messages |-> "msg:default",
   defaultFormats |-> "dfmt:default", onError |-> "fn:onError"]

SessionInit ==
  /\ Init
  /\ \A k \in DOMAIN SessionFixed : props[k] = SessionFixed[k]

SessionNext ==
  \/ \E k \in SessionKeys : \E v \in PropValues[k] : ConfigurationEvent(k, v)
  \/ \E kind \in Kinds : \E o \in OptionObjects : FormatCall(kind, o)

SessionSpec == SessionInit /\ [][SessionNext]_vars

(***************************************************************************)
(* Direct calls: processIntlConfig applied to a configuration and again    *)
(* to its own result, and the exported createIntl applied to a             *)
(* configuration, with and without a cache.  A configuration given         *)
(* directly may lack any key.                                              *)
(***************************************************************************)
FnValues ==
  [locale : {Absent, "", "en", "xx"},
   timeZone : {Absent, "", "UTC"},
   formats : {Absent, "fmt:A", "fmt:B", "fmt:C"},
   textComponent : {Absent, "span"},
   messages : {Absent, "msg:A"},
   defaultLocale : {Absent, Undef, "", "de", "zz"},
   defaultFormats : {Absent, "fmt:B", "fmt:C"},
   onError : {Absent, "fn:onError", Null}]

Strip(r) == Restrict(r, {k \in DOMAIN r : r[k] # Absent})

FnInit ==
  /\ \E r \in FnValues : fnIn = Strip(r)
  /\ fnPc = "given"
  /\ fnOut = EmptyObj
  /\ props = EmptyObj
  /\ state = [cache |-> "cache:1"]
  /\ objs = UserObjs
  /\ ctxs = EmptyObj
  /\ caches = ("cache:1" :> {})
  /\ natives = {}
  /\ errors = <<>>
  /\ last = [op |-> "none"]

FnNormalize ==
  /\ fnPc = "given"
  /\ \E n \in {processIntlConfig(fnIn, objs)} :
     /\ fnPc' = "normalized"
     /\ fnOut' = [once |-> n.config]
     /\ objs' = n.objs
     /\ UNCHANGED <<fnIn, providerVars>>

FnNormalizeAgain ==
  /\ fnPc = "normalized"
  /\ \E n \in {processIntlConfig(fnOut.once, objs)} :
     /\ fnPc' = "renormalized"
     /\ fnOut' = [once |-> fnOut.once, twice |-> n.config, before |-> objs]
     /\ objs' = n.objs
     /\ UNCHANGED <<fnIn, providerVars>>

FnCreateIntl(cache) ==
  /\ fnPc = "given"
  /\ \E c \in {createIntl(fnIn, cache, ctxs, caches)} :
     /\ fnPc' = "built"
     /\ fnOut' = [intl |-> c.ref, threw |-> c.threw, cache |-> cache,
                  given |-> fnIn]
     /\ fnIn' = c.config
     /\ ctxs' = c.ctxs
     /\ caches' = c.caches
     /\ errors' = c.errors
     /\ UNCHANGED <<props, state, objs, natives, last>>

FnNext ==
  \/ FnNormalize
  \/ FnNormalizeAgain
  \/ \E cache \in {Undef, "cache:1"} : FnCreateIntl(cache)

FnSpec == FnInit /\ [][FnNext]_vars

(***************************************************************************)
(* A provider whose consumers keep the contexts they were given: a         *)
(* consumer that skipped rendering still holds the context of an earlier   *)
(* configuration.                                                          *)
(***************************************************************************)
HistoryKeys == {"locale", "timeZone", "formats", "messages"}

HistoryFixed ==
  [textComponent |-> "Fragment", defaultLocale |-> "en",
   defaultFormats |-> "dfmt:default", onError |-> "fn:onError"]

\* a configuration event after which every context held so far is still
\* held
HoldingEvent(k, v) ==
  /\ Cardinality(DOMAIN ctxs) <= MaxHeld
  /\ GuardCall(k, v, DOMAIN ctxs)

HistoryInit ==
  /\ Init
  /\ \A k \in DOMAIN HistoryFixed : props[k] = HistoryFixed[k]

HistoryNext ==
  \/ \E k \in HistoryKeys : \E v \in PropValues[k] : HoldingEvent(k, v)
  \/ \E k \in HistoryKeys : \E v \in PropValues[k] : ConfigurationEvent(k, v)

HistorySpec == HistoryInit /\ [][HistoryNext]_vars

(***************************************************************************)
(* A host that passes new objects with the contents of the old ones, and   *)
(* that edits in place the objects it passes.                              *)
(***************************************************************************)
DetectKeys == {"timeZone", "formats", "messages", "defaultFormats"}

DetectValues ==
  [timeZone |-> {Undef, "UTC"},
   formats |-> {"fmt:default", "fmt:A", "fmt:A2"},
   messages |-> {"msg:A", "msg:A2"},
   defaultFormats |-> {"dfmt:default", "fmt:default"}]

DetectFixed ==
  [locale |-> "en", textComponent |-> "Fragment", defaultLocale |-> "en",
   onError |-> "fn:onError"]

\* the contents an object has after the host has edited it
HostEdits ==
  ("fmt:A" :> [date |-> [short |-> OwnZone]]) @@
  ("fmt:default" :> [time |-> [short |-> PlainTime]]) @@
  ("msg:A" :> [greeting |-> "Bonjour"])

HostMutates(ref) ==
  /\ fnPc = "off"
  /\ objs[ref] = UserObjs[ref]
  /\ objs' = [objs EXCEPT ![ref] = HostEdits[ref]]
  /\ last' = [op |-> "hostMutation", threw |-> FALSE, ref |-> ref]
  /\ UNCHANGED <<props, state, ctxs, caches, natives, errors, fnVars>>

DetectInit ==
  /\ Init
  /\ \A k \in DOMAIN DetectFixed : props[k] = DetectFixed[k]
  /\ \A k \in DetectKeys : props[k] \in DetectValues[k]

DetectNext ==
  \/ \E k \in DetectKeys : \E v \in DetectValues[k] : ConfigurationEvent(k, v)
  \/ \E ref \in DOMAIN HostEdits : HostMutates(ref)

DetectSpec == DetectInit /\ [][DetectNext]_vars

(***************************************************************************)
(* Properties                                                              *)
(***************************************************************************)
TimeZoneSet(config) == ~Falsy(Get(config, "timeZone"))

FormatsKeys == {"formats", "defaultFormats"}
Sections == {"date", "time"}

\* the preset tables of a configuration that time zone injection concerns:
\* <<key, section>> with the configuration's object under key having section
PresetTables(config, heap) ==
  {t \in FormatsKeys \X Sections :
     /\ ~Falsy(Get(config, t[1]))
     /\ t[2] \in DOMAIN heap[config[t[1]]]}

\* C1 (as claimed): a configuration event whose raw configuration is
\* identical to the previous one leaves state.intl the same object, with
\* the same contents, and leaves prevConfig unchanged.
C1_ContextReuse ==
  [][props' = props =>
       /\ state'.intl = state.intl
       /\ state'.prevConfig = state.prevConfig
       /\ ctxs' = ctxs]_vars

\* C2: a configuration event whose raw configuration differs from the
\* previous one in a top-level field makes state.intl a new object, built
\* from the canonical form of the new configuration and the cache of the
\* state, and stores that canonical form as prevConfig; a supported locale
\* that replaces "en" by "fr" gives a context whose locale is "fr".
C2_RebuildOnChange ==
  [][props' # props =>
       /\ state'.intl # state.intl
       /\ state'.intl \in DOMAIN ctxs'
       /\ state'.prevConfig = processIntlConfig(props', objs).config
       /\ \A k \in ConfigKeys \ {"locale"} :
            ctxs'[state'.intl][k] = state'.prevConfig[k]
       /\ ctxs'[state'.intl].formatters = state.cache
       /\ areIntlLocalesSupported(props'.locale) =>
            ctxs'[state'.intl].locale = props'.locale
       /\ (props.locale = "en" /\ props'.locale = "fr") =>
            ctxs'[state'.intl].locale = "fr"]_vars

C2_Witness ==
  /\ last.op = "getDerivedStateFromProps"
  /\ last.changed /\ last.rebuilt
  /\ props.locale = "fr"
  /\ ctxs[state.intl].locale = "fr"

\* C3: with timeZone set, every preset P of a date or time table under
\* formats or defaultFormats becomes {timeZone, ...P}: the same presets, each
\* with all of its own options unchanged (its own timeZone included) and,
\* when it has no timeZone of its own, the top-level timeZone.
C3_TimeZonePropagation ==
  (fnPc = "normalized" /\ TimeZoneSet(fnIn)) =>
    \A t \in PresetTables(fnIn, objs) :
      LET given == objs[fnIn[t[1]]][t[2]]
          made == objs[fnOut.once[t[1]]][t[2]]
      IN /\ DOMAIN made = DOMAIN given
         /\ \A name \in DOMAIN given :
              /\ DOMAIN made[name] = (DOMAIN given[name]) \cup {"timeZone"}
              /\ \A o \in DOMAIN given[name] : made[name][o] = given[name][o]
              /\ "timeZone" \notin DOMAIN given[name] =>
                   made[name].timeZone = fnIn.timeZone

C3_Witness ==
  /\ fnPc = "normalized"
  /\ Get(fnIn, "timeZone") = "UTC"
  /\ Get(fnIn, "formats") = "fmt:B"
  /\ objs[fnOut.once.formats].date.short.timeZone = "America/New_York"
  /\ objs[fnOut.once.formats].date.long.timeZone = "UTC"
  /\ objs[fnOut.once.formats].date.long.month = "short"

\* C4 (as claimed): with timeZone set, every preset under formats.date,
\* formats.time, defaultFormats.date and defaultFormats.time of the
\* canonical configuration has a timeZone equal to the top-level timeZone.
C4_PresetsCarryTopLevelZone ==
  (fnPc = "normalized" /\ TimeZoneSet(fnIn)) =>
    \A t \in PresetTables(fnOut.once, objs) :
      \A name \in DOMAIN objs[fnOut.once[t[1]]][t[2]] :
        /\ "timeZone" \in DOMAIN objs[fnOut.once[t[1]]][t[2]][name]
        /\ objs[fnOut.once[t[1]]][t[2]][name].timeZone = fnOut.once.timeZone

\* C4 (amended): with timeZone set, every preset in those four places of
\* the canonical configuration has a timeZone property; it is the top-level
\* timeZone where the preset given had no timeZone property, and the
\* preset's own value where it had one.
C4_PresetsCarryZone ==
  (fnPc = "normalized" /\ TimeZoneSet(fnIn)) =>
    /\ PresetTables(fnOut.once, objs) = PresetTables(fnIn, objs)
    /\ \A t \in PresetTables(fnOut.once, objs) :
         \A name \in DOMAIN objs[fnOut.once[t[1]]][t[2]] :
           LET made == objs[fnOut.once[t[1]]][t[2]][name]
               given == objs[fnIn[t[1]]][t[2]][name]
           IN /\ "timeZone" \in DOMAIN made
              /\ made.timeZone = IF "timeZone" \in DOMAIN given
                                 THEN given.timeZone
                                 ELSE fnOut.once.timeZone

C4_Witness ==
  /\ fnPc = "normalized"
  /\ Get(fnIn, "timeZone") = "UTC"
  /\ Get(fnIn, "formats") = "fmt:B"
  /\ Get(fnIn, "defaultFormats") = "fmt:C"
  /\ objs[fnOut.once.defaultFormats].time.long.timeZone = "UTC"
  /\ objs[fnOut.once.formats].time.short.timeZone = "UTC"
  /\ objs[fnOut.once.formats].date.short.timeZone = "America/New_York"

\* C5: createIntl returns without throwing; when the locale given is unset
\* or unsupported, the locale of the context is the defaultLocale of the
\* configuration merged over the defaults, or "en" if that is absent or
\* empty; when the locale given is supported, it is the locale given.
C5_LocaleFallback ==
  fnPc = "built" =>
    LET locale == Get(fnIn, "locale")
        defaultLocale == IF "defaultLocale" \in DOMAIN fnIn
                         THEN fnIn.defaultLocale
                         ELSE DEFAULT_INTL_CONFIG.defaultLocale
    IN /\ ~fnOut.threw
       /\ fnOut.intl \in DOMAIN ctxs
       /\ ctxs[fnOut.intl].locale =
            IF locale \in SupportedLocales THEN locale
            ELSE IF defaultLocale \in {Undef, ""} THEN "en"
            ELSE defaultLocale

C5_Witness ==
  /\ fnPc = "built"
  /\ Get(fnIn, "locale") = "xx"
  /\ Get(fnIn, "defaultLocale") = "de"
  /\ ctxs[fnOut.intl].locale = "de"
  /\ ~fnOut.threw

\* C6 (as claimed): while a provider is configured with an unset or
\* unsupported locale and an onError function, onError has been invoked
\* exactly once, with a missing-locale-data error; with a supported locale,
\* or with an onError that is not a function, it has not been invoked; and
\* no operation of the provider threw.
C6_OnErrorOnce ==
  fnPc = "off" =>
    /\ ~last.threw
    /\ IF /\ ~areIntlLocalesSupported(props.locale)
          /\ IsFunction(props.onError)
       THEN /\ Len(errors) = 1
            /\ errors[1] = createError(props.locale, props.defaultLocale)
       ELSE errors = <<>>

\* C7 (as claimed): the locale of every context createIntl returns is not
\* empty and is a supported locale.
C7_SafeFallback ==
  fnPc = "built" =>
    /\ ~Falsy(ctxs[fnOut.intl].locale)
    /\ areIntlLocalesSupported(ctxs[fnOut.intl].locale)

\* C8: state.cache is the cache created at construction in every state,
\* it is the only cache there is, and every context of the provider is
\* bound to it.
C8_SingleCache ==
  fnPc = "off" =>
    /\ state.cache = createIntlCache(EmptyObj).ref
    /\ DOMAIN caches = {state.cache}
    /\ \A c \in DOMAIN ctxs : ctxs[c].formatters = state.cache

C8_Witness ==
  /\ last.op = "getDerivedStateFromProps"
  /\ last.rebuilt
  /\ ctxs[state.intl].formatters = state.cache
  /\ state.intl # "ctx:1"

\* C9: normalising the result of a normalisation changes nothing: the
\* scalar fields are the same values, and formats and defaultFormats are
\* the same value or objects with equal contents.
C9_NormalizeIdempotent ==
  fnPc = "renormalized" =>
    /\ \A k \in ConfigKeys \ FormatsKeys : fnOut.twice[k] = fnOut.once[k]
    /\ \A k \in FormatsKeys :
         IF fnOut.once[k] \in DOMAIN objs
         THEN /\ fnOut.twice[k] \in DOMAIN objs
              /\ objs[fnOut.twice[k]] = objs[fnOut.once[k]]
         ELSE fnOut.twice[k] = fnOut.once[k]

C9_Witness ==
  /\ fnPc = "renormalized"
  /\ Get(fnIn, "timeZone") = "UTC"
  /\ Get(fnIn, "formats") = "fmt:B"
  /\ Get(fnIn, "locale") = "xx"
  /\ Get(fnIn, "defaultLocale") = "de"
  /\ fnOut.twice.formats # fnOut.once.formats
  /\ objs[fnOut.twice.formats].date.short.timeZone = "America/New_York"

\* C10: a cache holds at most one instance per key; no two native
\* formatters were constructed for the same kind, locale and structurally
\* equal options; and a format call returns the constructed instance whose
\* kind, locale and options are those requested, whatever the order of the
\* properties of the options object.
SameOptions(o1, o2) == Range(o1) = Range(o2)

C10_CacheIdentity ==
  fnPc = "off" =>
    /\ \A c \in DOMAIN caches : \A e1, e2 \in caches[c] :
         e1.key = e2.key => e1 = e2
    /\ \A i1, i2 \in natives :
         (/\ i1.kind = i2.kind
          /\ i1.locale = i2.locale
          /\ SameOptions(i1.args, i2.args)) => i1 = i2
    /\ last.op = "format" =>
         /\ last.instance \in natives
         /\ last.instance.locale = ctxs[state.intl].locale
         /\ SameOptions(last.instance.args, last.options)
         /\ \E e \in caches[state.cache] : e.instance = last.instance

C10_Witness ==
  /\ last.op = "format"
  /\ last.hit
  /\ last.options # last.instance.args
  /\ Cardinality(natives) = 1

\* C11: a format call made through a context never returns an instance
\* that was constructed for another locale, although the contexts before
\* and after a locale change share one cache; and when no instance exists
\* yet for the kind, the locale of the current context and the options,
\* the call is a miss that constructs a new instance.
C11_NoCrossLocaleLeak ==
  [][(last'.op = "format" /\ last' # last) =>
       LET locale == ctxs[state.intl].locale
           made == {i \in natives : /\ i.kind = last'.instance.kind
                                    /\ i.locale = locale
                                    /\ SameOptions(i.args, last'.options)}
       IN /\ last'.instance.locale = locale
          /\ \A i \in natives : i.locale # locale => last'.instance # i
          /\ made = {} => /\ ~last'.hit
                          /\ last'.instance \notin natives
                          /\ natives' = natives \cup {last'.instance}]_vars

C11_Witness ==
  /\ last.op = "format"
  /\ ~last.hit
  /\ ctxs[state.intl].locale = "fr"
  /\ \E i \in natives : /\ i.locale = "en"
                        /\ i.kind = last.instance.kind
                        /\ SameOptions(i.args, last.options)
  /\ \E e \in caches[state.cache] : e.instance.locale = "en"

\* C12: when the raw configuration has no time zone (absent, undefined or
\* empty), the canonical configuration's formats and defaultFormats are the
\* very objects given (the same references, or undefined where none was
\* given), no object is created and no preset object is changed.
C12_PassThrough ==
  (fnPc \in {"normalized", "renormalized"} /\ ~TimeZoneSet(fnIn)) =>
    /\ \A k \in FormatsKeys : fnOut.once[k] = Get(fnIn, k)
    /\ fnPc = "normalized" => objs = UserObjs
    /\ fnPc = "renormalized" => fnOut.before = UserObjs

C12_Witness ==
  /\ fnPc = "normalized"
  /\ Get(fnIn, "timeZone") = ""
  /\ fnOut.once.formats = "fmt:B"
  /\ fnOut.once.defaultFormats = "fmt:C"
  /\ PresetTables(fnIn, objs) = FormatsKeys \X Sections

C14_NoNullContext ==
  fnPc = "off" =>
    /\ "intl" \in DOMAIN state
    /\ ~Falsy(state.intl)
    /\ state.intl \in DOMAIN ctxs
    /\ ConfigKeys \subseteq DOMAIN ctxs[state.intl]
    /\ last.op = "render" => (~last.threw /\ last.value = state.intl)

C14_Witness ==
  /\ last.op = "render"
  /\ ~last.threw
  /\ last.value = state.intl
  /\ state.intl # FreshCtx(EmptyObj)
  /\ props.locale = "xx"

\* C15: a call of the guard rebuilds the context exactly when the canonical
\* form of the new configuration differs from prevConfig in some top-level
\* field under ===.  A messages, formats or defaultFormats object that is
\* another object with the same contents makes it rebuild; an edit inside
\* an object whose reference is the one prevConfig holds does not: the
\* contents of the objects play no part in the comparison.
C15_ShallowChangeDetection ==
  [][last'.op = "getDerivedStateFromProps" =>
       LET config == processIntlConfig(props', objs).config
           differs == {k \in ConfigKeys : state.prevConfig[k] # config[k]}
       IN /\ last'.rebuilt <=> differs # {}
          /\ state'.intl # state.intl <=> differs # {}
          /\ \A k \in {"messages", "formats", "defaultFormats"} :
               (props'[k] # props[k] /\ objs[props'[k]] = objs[props[k]])
                 => state'.intl # state.intl
          /\ (\A k \in ConfigKeys : config[k] = state.prevConfig[k])
               => state' = state]_vars

C15_Witness ==
  /\ last.op = "getDerivedStateFromProps"
  /\ ~last.rebuilt
  /\ props.formats = "fmt:A"
  /\ state.prevConfig.formats = "fmt:A"
  /\ objs["fmt:A"] = HostEdits["fmt:A"]
  /\ props.messages = "msg:A"
  /\ objs["msg:A"] = HostEdits["msg:A"]

\* two values are the same value: identical, or objects with the same
\* contents
SameValue(a, b) ==
  \/ a = b
  \/ /\ a \in DOMAIN objs
     /\ b \in DOMAIN objs
     /\ objs[a] = objs[b]

\* the context state.intl carries the configuration state.prevConfig
ContextMatchesConfig ==
  fnPc = "off" =>
    LET intl == ctxs[state.intl]
        merged == Merge(DEFAULT_INTL_CONFIG, state.prevConfig)
    IN /\ \A k \in ConfigKeys \ ({"locale"} \cup FormatsKeys) :
            intl[k] = merged[k]
       /\ \A k \in FormatsKeys : SameValue(intl[k], merged[k])
       /\ intl.locale =
            IF areIntlLocalesSupported(merged.locale) THEN merged.locale
            ELSE IF Falsy(merged.defaultLocale) THEN "en"
            ELSE merged.defaultLocale

C17_Purity ==
  fnPc = "off" =>
    /\ \A r \in DOMAIN UserObjs : r \in DOMAIN objs /\ objs[r] = UserObjs[r]
    /\ \A k \in FormatsKeys :
         state.prevConfig[k] # props[k] =>
           /\ state.prevConfig[k] \in NewRefs
           /\ state.prevConfig[k] \notin DOMAIN UserObjs
    /\ \A k \in ConfigKeys \ FormatsKeys : state.prevConfig[k] = props[k]
    /\ DOMAIN state.prevConfig = ConfigKeys
    /\ ~areIntlLocalesSupported(props.locale) =>
         /\ state.prevConfig.locale = props.locale
         /\ ctxs[state.intl].locale # props.locale

C17_Witness ==
  /\ last.op = "getDerivedStateFromProps"
  /\ last.rebuilt
  /\ props.locale = "xx"
  /\ state.prevConfig.locale = "xx"
  /\ ctxs[state.intl].locale = "en"
  /\ props.timeZone = "UTC"
  /\ props.formats = "fmt:B"
  /\ state.prevConfig.formats \in NewRefs
  /\ objs[state.prevConfig.formats].time.short.timeZone = "UTC"
  /\ objs["fmt:B"] = UserObjs["fmt:B"]

\* C18: no step changes a field of a context that exists before and after
\* it, nor the contents of a formats or defaultFormats object such a
\* context refers to; and a call of the guard that rebuilds makes
\* state.intl an object that was not a context before, leaving the context
\* it replaces, where a consumer still holds it, with all its fields.
C18_ContextImmutability ==
  [][/\ \A c \in DOMAIN ctxs \cap DOMAIN ctxs' :
          /\ ctxs'[c] = ctxs[c]
          /\ \A k \in FormatsKeys : objs'[ctxs[c][k]] = objs[ctxs[c][k]]
     /\ (last'.op = "getDerivedStateFromProps" /\ last'.rebuilt) =>
          /\ state'.intl \notin DOMAIN ctxs
          /\ state'.intl \in DOMAIN ctxs'
          /\ Cardinality(DOMAIN ctxs') > 1 =>
               /\ state.intl \in DOMAIN ctxs'
               /\ \A k \in ConfigKeys :
                    ctxs'[state.intl][k] = ctxs[state.intl][k]]_vars

C18_Witness ==
  /\ last.op = "getDerivedStateFromProps"
  /\ last.rebuilt
  /\ Cardinality(DOMAIN ctxs) = 3
  /\ ctxs[state.intl].locale = "fr"
  /\ \E c, d \in DOMAIN ctxs :
       /\ ctxs[c].locale = "en"
       /\ ctxs[c].messages = "msg:default"
       /\ ctxs[d].locale = "en"
       /\ ctxs[d].messages = "msg:A"
       /\ ctxs[d].formats \in NewRefs

\* C19: building a context, at construction or in a rebuild, constructs no
\* native formatter and adds no cache entry: a step of the guard leaves
\* every cache and the set of instances constructed as they are, whether
\* it rebuilds or reuses the context; the entries of a cache change only
\* in a format call that misses, by the one instance it constructs; and
\* while no format call has constructed an instance every cache is empty.
C19_LazyFormatters ==
  /\ [](fnPc = "off" =>
         /\ natives = {} => \A c \in DOMAIN caches : caches[c] = {}
         /\ \A c \in DOMAIN caches : \A e \in caches[c] :
              e.instance \in natives)
  /\ [][/\ last'.op = "getDerivedStateFromProps" =>
            (caches' = caches /\ natives' = natives)
        /\ (caches' # caches \/ natives' # natives) =>
            /\ last'.op = "format"
            /\ ~last'.hit
            /\ natives' = natives \cup {last'.instance}
            /\ DOMAIN caches' = DOMAIN caches
            /\ \A c \in DOMAIN caches :
                 caches'[c] # caches[c] =>
                   \E e \in caches'[c] :
                     /\ e.instance = last'.instance
                     /\ caches'[c] = caches[c] \cup {e}]_vars

C19_Witness ==
  /\ last.op = "getDerivedStateFromProps"
  /\ last.rebuilt
  /\ state.intl # FreshCtx(EmptyObj)
  /\ ctxs[state.intl].locale = "fr"
  /\ Cardinality(natives) = 1
  /\ \A i \in natives : i.locale = "en"
  /\ Cardinality(caches[state.cache]) = 1

====
